---- MODULE Spec2Model ----
(***************************************************************************)
(* State-machine model of the FIFO coordinator of katexochen/sync          *)
(* (src/server/fifio.go): the store (fifos, tickets), the waiter registry, *)
(* the timeout scheduler (notifiers, pending AfterFunc timers), the        *)
(* manager loop (timer notifications and the reaper) and the HTTP handlers *)
(* new, ticket, wait and done.                                             *)
(*                                                                         *)
(* Store: src/server/db.go opens SQLite with one connection                *)
(* (SetMaxOpenConns(1)), so every statement and every transaction is       *)
(* atomic and serialized.  A handler is one action per stretch of code     *)
(* between the points where it blocks or where its accesses to the         *)
(* registry leave a window for another goroutine: ticket is split after    *)
(* loading the FIFO, wait after getWaiter and at its select, done after    *)
(* removeWaiter.  One round of the manager loop is one action.  SpecRace   *)
(* takes these steps further apart: done's Delete and the timer round's    *)
(* load are steps of their own, before the updateTicketQueue call.         *)
(*                                                                         *)
(* Time is discrete; one unit is one pullRate.  The code only compares     *)
(* time stamps with the clock, so every stamp is kept as its offset from   *)
(* the present: the clock reads 0, Tick lowers every stamp by one, and a   *)
(* stamp stops at the offset past which no comparison can change.  A       *)
(* timer's callback runs after its duration has elapsed, so a clock        *)
(* reading taken in reaction to it lies strictly after the deadline.       *)
(***************************************************************************)
EXTENDS Integers, Sequences, FiniteSets, Bags, TLC

\* ---- bounds of the model
MaxFifos == 1
MaxTickets == 2
MaxCalls == 2
\* FIFOs in the check of two FIFOs side by side
MaxFifosBoth == 2
\* mutexes made, lock requests served and handlers of the mutex service
MaxMutexes == 1
MaxNonces == 2
MaxMutexCalls == 3
MaxDur == 1

\* ---- program constants (in model time units)
PullRate == 1

Nil == 0 - 100                   \* a nil *time.Time / absent value
\* a path value that uuidlib.Parse rejects
Malformed == 0
\* a form value that time.ParseDuration rejects
Unparsable == 0 - 1
\* the durations requests are made with
Durations == 0..MaxDur
\* a duration that does not elapse while the model watches, and the instant
\* it ends at
Long == MaxDur + 1
Never == 0 - Nil
\* the oldest offset a stored time stamp is kept at: older than any duration
Floor == 0 - (MaxDur + 1)
\* the oldest offset of a deadline: it has passed
Past == 0 - 1
\* m.clock.Now(), as an offset from the present
now == 0
FifoIds == 1..MaxFifos
\* a well-formed uuid that is the uuid of no FIFO
Stranger == MaxFifos + 1
TicketIds == 1..MaxTickets
CallIds == 1..MaxCalls
ChanIds == 1..(MaxCalls + MaxTickets)

VARIABLES
  fifos,      \* table fifos: uuid -> row
  nfifos,     \* number of FIFOs created so far (uuids are fresh)
  tickets,    \* table tickets: uuid -> row
  issued,     \* every ticket uuid ever inserted -> its FIFO and created_at
  fate,       \* issued uuid -> "stored", or how its row was deleted: "done"
              \* (by done, accepted), "withdrawn" (by done, not accepted),
              \* "evictAccept", "evictDone", "reaped"
  waiters,    \* m.waiters: ticket uuid -> channel
  closed,     \* channels that have been closed
  notifiers,  \* m.notifiers
  timers,     \* pending clock.AfterFunc timers (a bag)
  reapAt,     \* when the clock.After(m.pullRate) of run's select fires
  scan,       \* the FIFOs run's reaper case has found unused and not yet deleted
  fault,      \* the statement of updateTicketQueue the store fails at
  round,      \* the ticket run's timer case has found stale and not yet acted on
  ties,       \* the order the store returns rows of equal created_at in
  calls,      \* in-flight HTTP handlers
  resp,       \* the HTTP response written by the step just taken, if any
  mutexes,    \* mutexManager.mutexes: the uuids in the store
  mutex,      \* every mutex object made so far: uuid -> sync.Mutex and nonce
  nonces,     \* number of nonces made so far (nonces are fresh)
  mcalls,     \* in-flight handlers of the mutex service
  fatal       \* the runtime has stopped the process with a fatal error

vars == <<fifos, nfifos, tickets, issued, fate, waiters, closed,
          notifiers, timers, reapAt, scan, fault, round, ties,
          calls, resp, mutexes, mutex, nonces, mcalls, fatal>>

\* the state of the mutex service
mutexVars == <<mutexes, mutex, nonces, mcalls, fatal>>

\* ---------------------------------------------------------------- helpers

Range(f) == {f[x] : x \in DOMAIN f}

Drop(f, S) == [x \in DOMAIN f \ S |-> f[x]]

Put(f, k, v) == [x \in DOMAIN f \cup {k} |-> IF x = k THEN v ELSE f[x]]

Min(S) == CHOOSE x \in S : \A y \in S : x <= y

Max(S) == CHOOSE x \in S : \A y \in S : x >= y

\* time.Time.Add: the instant d after s
Plus(s, d) == IF d = Long \/ s = Never THEN Never ELSE s + d

\* the instant after which checkTimeouts rejects row t (Nil: there is none)
Deadline(t) ==
  IF t.acceptedAt # Nil THEN Plus(t.acceptedAt, t.dt)
  ELSE IF t.notifiedAt # Nil THEN Plus(t.notifiedAt, t.at)
  ELSE Nil

\* a handler's ticket struct.  The ticket handler fills in the three
\* durations.  Of a loaded row the wait handler reads the wait timeout and
\* what checkTimeouts computes from the row, which is kept as due.
NoTick == [wt |-> Nil, at |-> Nil, dt |-> Nil, due |-> Nil]

Snap(row) == [NoTick EXCEPT !.wt = row.wt,
                !.due = IF Deadline(row) = Nil THEN Nil ELSE Max({Deadline(row), Past})]

\* requests that carry no duration parameter
NoParams == [wt |-> Nil, at |-> Nil, dt |-> Nil]

\* a handler slot: form is the request's duration parameters, tick its
\* ticket struct, waitC its channel, deadline the instant its clock.After
\* fires, ctxDone whether r.Context() is cancelled
FreeCall == [pc |-> "free", kind |-> "none", fifo |-> Nil, id |-> Nil,
             form |-> NoParams, tick |-> NoTick, waitC |-> Nil,
             deadline |-> Nil, ctxDone |-> FALSE]

\* run's timer case is not between loading a ticket and updateTicketQueue
NoRound == [ticket |-> Nil, fifo |-> Nil]

Resp(kind, code, id) == [kind |-> kind, code |-> code, id |-> id]

NoResp == Resp("none", 0, Nil)

\* the lowest free handler slot (slots are interchangeable)
FreeSlot(c) == calls[c].pc = "free" /\ \A d \in CallIds : d < c => calls[d].pc # "free"

\* channels still referenced by the registry or by a handler
Refs(w, cs) == Range(w) \cup {cs[c].waitC : c \in CallIds}

\* make(chan struct{}): a channel nobody references
NewChan == Min(ChanIds \ Refs(waiters, calls))

\* closed flags are kept only for channels that are still referenced
Prune(cl, w, cs) == cl \cap Refs(w, cs)

\* ------------------------------------------------------------- the engine

\* a check that rejects every notified ticket
CheckTimeoutsEager(t, clk) == t.notifiedAt # Nil

\* fifoManager.checkTimeouts: TRUE when it returns an error (t is stale)
CheckTimeouts(t, clk) ==
  \/ t.notifiedAt # Nil /\ t.acceptedAt = Nil /\ clk > Plus(t.notifiedAt, t.at)
  \/ t.acceptedAt # Nil /\ clk > Plus(t.acceptedAt, t.dt)

\* checkTimeouts on a handler's copy of a row
CheckSnap(k, clk) == k.due # Nil /\ clk > k.due

\* which branch of checkTimeouts fails for t
StaleKind(t) == IF t.acceptedAt = Nil THEN "evictAccept" ELSE "evictDone"

FifoTickets(tks, f) == {t \in DOMAIN tks : tks[t].fifo = f}

\* ORDER BY created_at DESC
After(tks, a, b) == tks[a].createdAt > tks[b].createdAt

\* ORDER BY created_at ASC.  The statement names no other column, so SQL
\* leaves the order of rows with equal created_at to the store: a scan of
\* the table returns them in the order of insertion ("asc", by rowid), and
\* nothing holds the store to it ("desc").
Before(tks, a, b) ==
  \/ tks[a].createdAt < tks[b].createdAt
  \/ /\ tks[a].createdAt = tks[b].createdAt
     /\ IF ties = "asc" THEN tks[a].rowid < tks[b].rowid
                        ELSE tks[a].rowid > tks[b].rowid

\* the first row of S under ORDER BY created_at DESC
Newest(tks, S) == CHOOSE x \in S : \A y \in S \ {x} : After(tks, x, y)

Oldest(tks, S) == CHOOSE x \in S : \A y \in S \ {x} : Before(tks, x, y)

\* the query without its WHERE clause
FirstTwoOfAll(tks, f) ==
  LET S == DOMAIN tks IN
  IF S = {} THEN <<>>
  ELSE LET h == Oldest(tks, S) IN
       IF S = {h} THEN <<h>> ELSE <<h, Oldest(tks, S \ {h})>>

\* SELECT ... WHERE fifo_uuid = f ORDER BY created_at ASC LIMIT 2
FirstTwo(tks, f) ==
  LET S == FifoTickets(tks, f) IN
  IF S = {} THEN <<>>
  ELSE LET h == Oldest(tks, S) IN
       IF S = {h} THEN <<h>> ELSE <<h, Oldest(tks, S \ {h})>>

\* a promotion that closes and removes every registered channel
FireEveryWaiter(st, id) ==
  [st EXCEPT !.waiters = <<>>,
             !.closed  = st.closed \cup Range(st.waiters)]

\* a promotion that closes no channel
FireNone(st, id) == st

\* a promotion that closes the channel and leaves it in the registry
FireWaiterKeep(st, id) ==
  IF id \in DOMAIN st.waiters
  THEN [st EXCEPT !.closed = st.closed \cup {st.waiters[id]}]
  ELSE st

\* if waitC, ok := m.getWaiter(id); ok { close(waitC); m.removeWaiter(id) }
FireWaiter(st, id) ==
  IF id \in DOMAIN st.waiters
  THEN [st EXCEPT !.waiters = Drop(st.waiters, {id}),
                  !.closed  = st.closed \cup {st.waiters[id]}]
  ELSE st

\* fifoManager.notifyOnce(id, t): arm clock.AfterFunc unless registered
NotifyOnce(st, id, t) ==
  IF id \in st.notifiers THEN st
  ELSE [st EXCEPT !.notifiers = st.notifiers \cup {id},
                  !.timers = st.timers (+)
                               SetToBag({[ticket |-> id, at |-> Max({t, Past})]})]

\* the deadline updateTicketQueue hands to notifyOnce for head h
ArmTime(h) ==
  IF h.acceptedAt = Nil THEN Plus(h.notifiedAt, h.at) ELSE Plus(h.notifiedAt, h.wt)

\* the store, the registry and the scheduler as one value
Cur == [fifos |-> fifos, tickets |-> tickets, fate |-> fate,
        waiters |-> waiters, closed |-> closed,
        notifiers |-> notifiers, timers |-> timers, err |-> FALSE]

\* the statements of updateTicketQueue that go to the store: tx.First and
\* tx.Updates of updateFifo, the Find of the two oldest tickets, tx.Delete of
\* a stale head, tx.Updates of notified_at
Statements == {"load", "touch", "scan", "delete", "notify"}

\* the transaction of updateTicketQueue returns an error in state s, having
\* started in state st: the store is as it was at the start, while what was
\* done to the registry stays done
Rollback(s, st) ==
  [s EXCEPT !.fifos = st.fifos, !.tickets = st.tickets, !.fate = st.fate,
            !.err = TRUE]

\* fifoManager.updateTicketQueue(f) run in state st: the state it leaves,
\* err telling whether it returned an error (the transaction is rolled back).
\* An error of the scan is logged and not returned (lines 97-99): the
\* function goes on with the empty slice.
UpdateTicketQueue(f, st) ==
  IF f \notin DOMAIN st.fifos \/ fault \in {"load", "touch"}
  THEN Rollback(st, st)
  ELSE
    LET q     == IF fault = "scan" THEN <<>> ELSE FirstTwo(st.tickets, f)
        stale == Len(q) > 0 /\ CheckTimeouts(st.tickets[q[1]], now)
        st1   == [st EXCEPT !.fifos[f].updatedAt = now]
        st2   == IF stale
                 THEN FireWaiter([st1 EXCEPT
                        !.tickets = Drop(st.tickets, {q[1]}),
                        !.fate[q[1]] = StaleKind(st.tickets[q[1]])], q[1])
                 ELSE st1
        rest  == IF stale THEN Tail(q) ELSE q
    IN
    IF stale /\ fault = "delete" THEN Rollback(st, st)
    ELSE IF Len(rest) = 0 THEN st2
    ELSE
      LET h   == rest[1]
          row == IF st2.tickets[h].notifiedAt = Nil
                 THEN [st2.tickets[h] EXCEPT !.notifiedAt = now]
                 ELSE st2.tickets[h]
          st3 == [st2 EXCEPT !.tickets[h] = row]
      IN IF st2.tickets[h].notifiedAt = Nil /\ fault = "notify"
         THEN Rollback(st2, st)
         ELSE FireWaiter(NotifyOnce(st3, h, ArmTime(row)), h)

\* A uuid is never used again once its row is deleted, so a timer of a
\* deleted ticket can only lead run to a row that is not found, and its
\* registration is never looked up again: such a timer stays pending without
\* the uuid, and the registration is dropped.
ForgetTimer(b, live) == IF b.ticket \in live THEN b ELSE [b EXCEPT !.ticket = Nil]

Forget(B, live) == BagOfAll(LAMBDA b : ForgetTimer(b, live), B)

\* the state st becomes the current state; cs is the handlers' new state
Commit(st, cs) ==
  /\ fifos' = st.fifos
  /\ tickets' = st.tickets
  /\ fate' = st.fate
  /\ waiters' = st.waiters
  /\ notifiers' = st.notifiers \cap DOMAIN st.tickets
  /\ timers' = Forget(st.timers, DOMAIN st.tickets)
  /\ calls' = cs
  /\ closed' = Prune(st.closed, st.waiters, cs)

\* ---------------------------------------------------------------- clock

\* a time stamp one unit later, kept no older than fl
Age(s, fl) == IF s = Nil \/ s = Never THEN s ELSE Max({s - 1, fl})

AgeTick(t) == [t EXCEPT !.due = Age(@, Past)]

AgeRow(t) == [t EXCEPT !.notifiedAt = Age(@, Floor), !.acceptedAt = Age(@, Floor)]

AgeTimer(b) == [b EXCEPT !.at = Age(@, Past)]

\* the clock advances by one unit
Tick ==
  /\ fifos' = [f \in DOMAIN fifos |-> [fifos[f] EXCEPT !.updatedAt = Age(@, Floor)]]
  /\ tickets' = [t \in DOMAIN tickets |-> AgeRow(tickets[t])]
  /\ timers' = BagOfAll(AgeTimer, timers)
  /\ calls' = [c \in CallIds |->
                 [calls[c] EXCEPT !.tick = AgeTick(@), !.deadline = Age(@, 0)]]
  /\ reapAt' = Age(reapAt, 0)
  /\ resp' = NoResp
  /\ UNCHANGED <<nfifos, issued, fate, waiters, closed, notifiers, scan, fault, mutexVars, ties,
                 round>>

\* ------------------------------------------------------------- /fifo/new

\* fifoManager.new with the form values wt, at, dt, udt (a duration, or a
\* string ParseDuration rejects) and allow_overrides: lines 266-297 parse
\* them in turn and answer 400 at the first that fails, then m.db.Create
\* (max: the number of FIFOs the model lets exist)
NewUpTo(max, wt, at, dt, udt, ovr) ==
  /\ IF Unparsable \in {wt, at, dt, udt}
     THEN /\ resp' = Resp("new", 400, Nil)
          /\ UNCHANGED <<fifos, nfifos>>
     ELSE /\ nfifos < max
          /\ nfifos' = nfifos + 1
          /\ fifos' = Put(fifos, nfifos + 1,
                          [updatedAt |-> now, wt |-> wt, at |-> at, dt |-> dt,
                           udt |-> udt, allowOverrides |-> ovr])
          /\ resp' = Resp("new", 200, nfifos + 1)
  /\ UNCHANGED <<tickets, issued, fate, waiters, closed,
                 notifiers, timers, reapAt, scan, fault, mutexVars, ties, round, calls>>

New(wt, at, dt, udt, ovr) == NewUpTo(MaxFifos, wt, at, dt, udt, ovr)

\* ------------------------------------------------------- /fifo/{u}/ticket

\* the duration parameters of a ticket request (Nil: parameter absent)
TicketParams == [wt : Durations \cup {Nil, Unparsable},
                 at : Durations \cup {Nil, Unparsable},
                 dt : Durations \cup {Nil, Unparsable}]

\* a ticket handler that never reads the form values
OverrideIgnored(base, p) == base

\* if r.FormValue(name) != "" { ...; tick.X = parsed }
Override(base, p) == IF p = Nil THEN base ELSE p

\* ticket, lines 317-379: parse the path, load the FIFO, build the ticket;
\* the form values are read only when the FIFO allows overrides
TicketStart(c, f, p) ==
  /\ FreeSlot(c)
  /\ Cardinality(DOMAIN issued)
       + Cardinality({d \in CallIds : calls[d].kind = "ticket"}) < MaxTickets
  /\ IF f = Malformed
     THEN /\ resp' = Resp("ticket", 400, Nil)
          /\ UNCHANGED calls
     ELSE IF f \notin DOMAIN fifos
     THEN /\ resp' = Resp("ticket", 404, Nil)
          /\ UNCHANGED calls
     ELSE IF fifos[f].allowOverrides /\ Unparsable \in {p.wt, p.at, p.dt}
     THEN /\ resp' = Resp("ticket", 400, Nil)
          /\ UNCHANGED calls
     ELSE LET o == fifos[f].allowOverrides IN
          /\ calls' = [calls EXCEPT ![c] =
                [FreeCall EXCEPT !.pc = "create", !.kind = "ticket", !.fifo = f,
                   !.form = p,
                   !.tick = [NoTick EXCEPT
                      !.wt = IF o THEN Override(fifos[f].wt, p.wt) ELSE fifos[f].wt,
                      !.at = IF o THEN Override(fifos[f].at, p.at) ELSE fifos[f].at,
                      !.dt = IF o THEN Override(fifos[f].dt, p.dt) ELSE fifos[f].dt]]]
          /\ resp' = NoResp
  /\ UNCHANGED <<fifos, nfifos, tickets, issued, fate, waiters,
                 closed, notifiers, timers, reapAt, scan, fault, mutexVars, ties, round>>

\* uuidlib.New(): an unused uuid; its rank among uuids is unrelated to the
\* order of insertion
NewUUID == Max(TicketIds \ DOMAIN issued)

\* created_at taken from a clock that runs backwards
CreatedBackwards == MaxTickets - Cardinality(DOMAIN issued)

\* created_at of a row inserted now.  gorm fills the column from the wall
\* clock inside the insert, and the store runs one statement at a time, so
\* the values grow with the order of insertion.  The column is only ever
\* compared with other created_at values and is kept as its rank.
CreatedNow == Cardinality(DOMAIN issued) + 1

\* created_at of a row inserted before the wall clock has moved on from the
\* value the last insert got
CreatedSame == Cardinality(DOMAIN issued)

\* the rowid SQLite gives a row inserted now: one more than the largest
RowId == Cardinality(DOMAIN issued) + 1

\* ticket, lines 381-393: m.db.Create(tick), which the foreign key rejects
\* when the FIFO is gone, then m.updateTicketQueue(fifoUUID) and the response
TicketCreate(c) ==
  /\ calls[c].pc = "create"
  /\ IF calls[c].fifo \notin DOMAIN fifos
     THEN /\ calls' = [calls EXCEPT ![c] = FreeCall]
          /\ resp' = Resp("ticket", 500, Nil)
          /\ UNCHANGED <<fifos, tickets, issued, fate, waiters, closed,
                         notifiers, timers>>
     ELSE LET id  == NewUUID
              t   == calls[c].tick
              row == [fifo |-> calls[c].fifo, createdAt |-> CreatedNow,
                      rowid |-> RowId,
                      notifiedAt |-> Nil, acceptedAt |-> Nil,
                      wt |-> t.wt, at |-> t.at, dt |-> t.dt]
              st  == [Cur EXCEPT !.tickets = Put(tickets, id, row),
                                 !.fate = Put(fate, id, "stored")]
              r   == UpdateTicketQueue(calls[c].fifo, st) IN
          /\ issued' = Put(issued, id,
                [fifo |-> calls[c].fifo, createdAt |-> CreatedNow])
          /\ Commit(r, [calls EXCEPT ![c] = FreeCall])
          /\ resp' = Resp("ticket", IF r.err THEN 500 ELSE 200, id)
  /\ UNCHANGED <<nfifos, reapAt, scan, fault, mutexVars, ties, round>>

\* ticket, line 381 alone: m.db.Create(tick), with created_at s
TicketInsert(c, s) ==
  /\ calls[c].pc = "create"
  /\ s > 0
  /\ IF calls[c].fifo \notin DOMAIN fifos
     THEN /\ calls' = [calls EXCEPT ![c] = FreeCall]
          /\ resp' = Resp("ticket", 500, Nil)
          /\ UNCHANGED <<fifos, tickets, issued, fate, waiters, closed,
                         notifiers, timers>>
     ELSE LET id  == NewUUID
              t   == calls[c].tick
              row == [fifo |-> calls[c].fifo, createdAt |-> s,
                      rowid |-> RowId,
                      notifiedAt |-> Nil, acceptedAt |-> Nil,
                      wt |-> t.wt, at |-> t.at, dt |-> t.dt] IN
          /\ issued' = Put(issued, id, [fifo |-> calls[c].fifo, createdAt |-> s])
          /\ Commit([Cur EXCEPT !.tickets = Put(tickets, id, row),
                                !.fate = Put(fate, id, "stored")],
                    [calls EXCEPT ![c].pc = "queue", ![c].id = id])
          /\ resp' = NoResp
  /\ UNCHANGED <<nfifos, reapAt, scan, fault, mutexVars, ties, round>>

\* ticket, lines 386-393: m.updateTicketQueue(fifoUUID) and the response
TicketUpdate(c) ==
  /\ calls[c].pc = "queue"
  /\ LET r == UpdateTicketQueue(calls[c].fifo, Cur) IN
     /\ Commit(r, [calls EXCEPT ![c] = FreeCall])
     /\ resp' = Resp("ticket", IF r.err THEN 500 ELSE 200, calls[c].id)
  /\ UNCHANGED <<nfifos, issued, reapAt, scan, fault, mutexVars, ties, round>>

\* ---------------------------------------------------- /fifo/{u}/wait/{t}

\* a wait that does not compare the ticket's FIFO with the path
WaitStartAnyFifo(c, u, t) ==
  /\ FreeSlot(c)
  /\ IF t = Malformed
     THEN resp' = Resp("wait", 400, t) /\ UNCHANGED calls
     ELSE IF t \notin DOMAIN tickets
     THEN resp' = Resp("wait", 404, t) /\ UNCHANGED calls
     ELSE /\ calls' = [calls EXCEPT ![c] =
                [FreeCall EXCEPT !.kind = "wait", !.fifo = u, !.id = t,
                   !.tick = Snap(tickets[t]),
                   !.pc = IF t \in DOMAIN waiters THEN "utq" ELSE "add",
                   !.waitC = IF t \in DOMAIN waiters THEN waiters[t] ELSE Nil]]
          /\ resp' = NoResp
  /\ UNCHANGED <<fifos, nfifos, tickets, issued, fate, waiters,
                 closed, notifiers, timers, reapAt, scan, fault, mutexVars, ties, round>>

\* wait, lines 397-426: parse the path, load the ticket, compare its FIFO,
\* then getOrCreateWaiter up to line 163: waitC, ok := m.getWaiter(uuid)
WaitStart(c, u, t) ==
  /\ FreeSlot(c)
  /\ IF t = Malformed
     THEN resp' = Resp("wait", 400, t) /\ UNCHANGED calls
     ELSE IF t \notin DOMAIN tickets
     THEN resp' = Resp("wait", 404, t) /\ UNCHANGED calls
     ELSE IF tickets[t].fifo # u
     THEN resp' = Resp("wait", 400, t) /\ UNCHANGED calls
     ELSE /\ calls' = [calls EXCEPT ![c] =
                [FreeCall EXCEPT !.kind = "wait", !.fifo = u, !.id = t,
                   !.tick = Snap(tickets[t]),
                   !.pc = IF t \in DOMAIN waiters THEN "utq" ELSE "add",
                   !.waitC = IF t \in DOMAIN waiters THEN waiters[t] ELSE Nil]]
          /\ resp' = NoResp
  /\ UNCHANGED <<fifos, nfifos, tickets, issued, fate, waiters,
                 closed, notifiers, timers, reapAt, scan, fault, mutexVars, ties, round>>

\* wait, lines 428-434: m.updateTicketQueue(tick.FifoUUID) with the handler
\* holding channel ch and the registry being w, then the select is entered
\* and clock.After(tick.WaitTimeout) started
Park(c, ch, w) ==
  LET r == UpdateTicketQueue(calls[c].fifo, [Cur EXCEPT !.waiters = w]) IN
  IF r.err
  THEN /\ Commit(r, [calls EXCEPT ![c] = FreeCall])
       /\ resp' = Resp("wait", 500, calls[c].id)
  ELSE /\ Commit(r, [calls EXCEPT ![c].pc = "select", ![c].waitC = ch,
                                  ![c].deadline = Plus(now, calls[c].tick.wt)])
       /\ resp' = NoResp

\* getOrCreateWaiter, lines 164-166, when getWaiter found no entry:
\* waitC = m.addWaiter(uuid); then the handler goes on to its select
WaitAdd(c) ==
  /\ calls[c].pc = "add"
  /\ Park(c, NewChan, Put(waiters, calls[c].id, NewChan))
  /\ UNCHANGED <<nfifos, issued, reapAt, scan, fault, mutexVars, ties, round>>

\* getOrCreateWaiter, lines 164-166 alone: waitC = m.addWaiter(uuid), which
\* makes a channel and stores it under the uuid, replacing what is there
WaitRegister(c) ==
  /\ calls[c].pc = "add"
  /\ LET cs == [calls EXCEPT ![c].pc = "utq", ![c].waitC = NewChan]
         w  == Put(waiters, calls[c].id, NewChan) IN
     /\ calls' = cs
     /\ waiters' = w
     /\ closed' = Prune(closed, w, cs)
  /\ resp' = NoResp
  /\ UNCHANGED <<fifos, nfifos, tickets, issued, fate, notifiers, timers,
                 reapAt, scan, fault, mutexVars, ties, round>>

\* the handler goes on to its select with the channel getWaiter returned
WaitUpdate(c) ==
  /\ calls[c].pc = "utq"
  /\ Park(c, calls[c].waitC, waiters)
  /\ UNCHANGED <<nfifos, issued, reapAt, scan, fault, mutexVars, ties, round>>

\* a clock whose After channels never deliver
AfterNever(deadline) == FALSE

\* <-m.clock.After(d), started d before deadline, is ready
AfterReady(deadline) == now >= deadline

\* a timeout branch that also deletes the ticket's row
WaitTimeoutDrops(c) ==
  /\ calls[c].pc = "select"
  /\ AfterReady(calls[c].deadline)
  /\ Commit([Cur EXCEPT !.tickets = Drop(tickets, {calls[c].id})],
            [calls EXCEPT ![c] = FreeCall])
  /\ resp' = Resp("wait", 408, calls[c].id)
  /\ UNCHANGED <<nfifos, issued, reapAt, scan, fault, mutexVars, ties, round>>

\* wait, lines 435-438: case <-m.clock.After(tick.WaitTimeout)
WaitTimeout(c) ==
  /\ calls[c].pc = "select"
  /\ AfterReady(calls[c].deadline)
  /\ LET cs == [calls EXCEPT ![c] = FreeCall] IN
     /\ calls' = cs
     /\ closed' = Prune(closed, waiters, cs)
  /\ resp' = Resp("wait", 408, calls[c].id)
  /\ UNCHANGED <<fifos, nfifos, tickets, issued, fate, waiters,
                 notifiers, timers, reapAt, scan, fault, mutexVars, ties, round>>

\* UPDATE tickets SET accepted_at = ... WHERE accepted_at IS NULL AND uuid = id
AcceptRows(tks, id) == id \in DOMAIN tks /\ tks[id].acceptedAt = Nil

\* a wait that goes on to accept without its channel being closed
WaitWakeEarly(c) ==
  /\ calls[c].pc = "select"
  /\ LET id == calls[c].id
         cs == [calls EXCEPT ![c] = FreeCall] IN
     /\ calls' = cs
     /\ closed' = Prune(closed, waiters, cs)
     /\ IF CheckSnap(calls[c].tick, now)
        THEN /\ resp' = Resp("wait", 410, id)
             /\ UNCHANGED <<tickets, notifiers>>
        ELSE /\ resp' = Resp("wait", 200, id)
             /\ IF AcceptRows(tickets, id)
                THEN /\ tickets' = [tickets EXCEPT ![id].acceptedAt = now]
                     /\ notifiers' = notifiers \ {id}
                ELSE UNCHANGED <<tickets, notifiers>>
  /\ UNCHANGED <<fifos, nfifos, issued, fate, waiters, timers, reapAt, scan,
                 fault, mutexVars, ties, round>>

\* wait, lines 439-463: case <-waitC; checkTimeouts on the ticket as it was
\* loaded at the start of the call; now := m.clock.Now(); the conditional
\* update of accepted_at; when a row was changed the ticket's notifier
\* registration is deleted; either way the handler returns 200
WaitWake(c) ==
  /\ calls[c].pc = "select"
  /\ calls[c].waitC \in closed
  /\ LET id == calls[c].id
         cs == [calls EXCEPT ![c] = FreeCall] IN
     /\ calls' = cs
     /\ closed' = Prune(closed, waiters, cs)
     /\ IF CheckSnap(calls[c].tick, now)
        THEN /\ resp' = Resp("wait", 410, id)
             /\ UNCHANGED <<tickets, notifiers>>
        ELSE /\ resp' = Resp("wait", 200, id)
             /\ IF AcceptRows(tickets, id)
                THEN /\ tickets' = [tickets EXCEPT ![id].acceptedAt = now]
                     /\ notifiers' = notifiers \ {id}
                ELSE UNCHANGED <<tickets, notifiers>>
  /\ UNCHANGED <<fifos, nfifos, issued, fate, waiters, timers, reapAt, scan, fault, mutexVars, ties, round>>

\* The client of a wait that is blocked in its select, with neither case
\* ready, goes away: net/http cancels r.Context().  The select of wait (lines 434-440) has no case for
\* the context and nothing else in the handler reads it, so the handler
\* stays where it is.
Disconnect(c) ==
  /\ calls[c].pc = "select"
  /\ calls[c].waitC \notin closed
  /\ ~AfterReady(calls[c].deadline)
  /\ ~calls[c].ctxDone
  /\ calls' = [calls EXCEPT ![c].ctxDone = TRUE]
  /\ resp' = NoResp
  /\ UNCHANGED <<fifos, nfifos, tickets, issued, fate, waiters, closed,
                 notifiers, timers, reapAt, scan, fault, mutexVars, ties, round>>

\* ---------------------------------------------------- /fifo/{u}/done/{t}

\* a done that answers 200 for a ticket it does not find
DoneStartAgain(c, u, t) ==
  /\ FreeSlot(c)
  /\ IF t \notin DOMAIN tickets
     THEN resp' = Resp("done", 200, t) /\ UNCHANGED <<calls, waiters, closed>>
     ELSE LET cs == [calls EXCEPT ![c] =
                       [FreeCall EXCEPT !.pc = "del", !.kind = "done",
                                        !.fifo = u, !.id = t]]
              w  == Drop(waiters, {t}) IN
          /\ calls' = cs
          /\ waiters' = w
          /\ closed' = Prune(closed, w, cs)
          /\ resp' = NoResp
  /\ UNCHANGED <<fifos, nfifos, tickets, issued, fate,
                 notifiers, timers, reapAt, scan, fault, mutexVars, ties, round>>

\* done, lines 466-494: parse the path, load the ticket, compare its FIFO,
\* m.removeWaiter(tick.UUID)
DoneStart(c, u, t) ==
  /\ FreeSlot(c)
  /\ IF t = Malformed
     THEN resp' = Resp("done", 400, t) /\ UNCHANGED <<calls, waiters, closed>>
     ELSE IF t \notin DOMAIN tickets
     THEN resp' = Resp("done", 404, t) /\ UNCHANGED <<calls, waiters, closed>>
     ELSE IF tickets[t].fifo # u
     THEN resp' = Resp("done", 400, t) /\ UNCHANGED <<calls, waiters, closed>>
     ELSE LET cs == [calls EXCEPT ![c] =
                       [FreeCall EXCEPT !.pc = "del", !.kind = "done",
                                        !.fifo = u, !.id = t]]
              w  == Drop(waiters, {t}) IN
          /\ calls' = cs
          /\ waiters' = w
          /\ closed' = Prune(closed, w, cs)
          /\ resp' = NoResp
  /\ UNCHANGED <<fifos, nfifos, tickets, issued, fate,
                 notifiers, timers, reapAt, scan, fault, mutexVars, ties, round>>

\* done, lines 495-506: m.db.Delete(tick), m.updateTicketQueue(tick.FifoUUID)
\* and the response
DoneDelete(c) ==
  /\ calls[c].pc = "del"
  /\ LET id == calls[c].id
         st == [Cur EXCEPT !.tickets = Drop(tickets, {id}),
                  !.fate = IF id \in DOMAIN tickets
                           THEN [fate EXCEPT ![id] =
                                   IF tickets[id].acceptedAt # Nil
                                   THEN "done" ELSE "withdrawn"]
                           ELSE fate]
         r  == UpdateTicketQueue(calls[c].fifo, st) IN
     /\ Commit(r, [calls EXCEPT ![c] = FreeCall])
     /\ resp' = Resp("done", IF r.err THEN 500 ELSE 200, id)
  /\ UNCHANGED <<nfifos, issued, reapAt, scan, fault, mutexVars, ties, round>>

\* done, line 495 alone: m.db.Delete(tick), which names the row by its uuid
\* and is no error when no row is left to delete
DoneDeleteRow(c) ==
  /\ calls[c].pc = "del"
  /\ LET id == calls[c].id IN
     Commit([Cur EXCEPT !.tickets = Drop(tickets, {id}),
               !.fate = IF id \in DOMAIN tickets
                        THEN [fate EXCEPT ![id] =
                                IF tickets[id].acceptedAt # Nil
                                THEN "done" ELSE "withdrawn"]
                        ELSE fate],
            [calls EXCEPT ![c].pc = "upd"])
  /\ resp' = NoResp
  /\ UNCHANGED <<nfifos, issued, reapAt, scan, fault, mutexVars, ties, round>>

\* done, lines 501-506: m.updateTicketQueue(tick.FifoUUID) and the response
DoneUpdate(c) ==
  /\ calls[c].pc = "upd"
  /\ LET r == UpdateTicketQueue(calls[c].fifo, Cur) IN
     /\ Commit(r, [calls EXCEPT ![c] = FreeCall])
     /\ resp' = Resp("done", IF r.err THEN 500 ELSE 200, calls[c].id)
  /\ UNCHANGED <<nfifos, issued, reapAt, scan, fault, mutexVars, ties, round>>

\* ------------------------------------------------------ fifoManager.run

\* the callback of a timer whose deadline is t has started
TimerDue(t) == now > t

\* a round that runs updateTicketQueue for every ticket it finds stored
RunNotifyAlways ==
  \E b \in BagToSet(timers) :
    /\ scan = {}
    /\ round = NoRound
    /\ TimerDue(b.at)
    /\ LET st == [Cur EXCEPT !.notifiers = notifiers \ {b.ticket},
                             !.timers = timers (-) SetToBag({b})] IN
       IF b.ticket \in DOMAIN tickets
       THEN Commit(UpdateTicketQueue(tickets[b.ticket].fifo, st), calls)
       ELSE Commit(st, calls)
    /\ reapAt' = now + PullRate
    /\ resp' = Resp("timer", 0, b.ticket)
    /\ UNCHANGED <<nfifos, issued, scan, fault, mutexVars, ties, round>>

\* run, lines 189-205, one round of the loop for a due timer.  The timer's
\* callback func() { m.notifyCh <- uuid } sends and the select receives
\* (nothing else reads the channel or the timers, and the channel's buffer
\* is larger than the number of timers ever pending, so no send blocks), the
\* registration is deleted, the ticket is loaded and, when checkTimeouts
\* rejects it, updateTicketQueue runs for its FIFO (an error is only
\* logged).  The loop is then back at its select with a new
\* clock.After(m.pullRate).  The round is reported as the log line of the
\* callback, "ticket timeout reached", with the timer's uuid.
RunNotify ==
  \E b \in BagToSet(timers) :
    /\ scan = {}
    /\ round = NoRound
    /\ TimerDue(b.at)
    /\ LET st == [Cur EXCEPT !.notifiers = notifiers \ {b.ticket},
                             !.timers = timers (-) SetToBag({b})] IN
       IF b.ticket \in DOMAIN tickets /\ CheckTimeouts(tickets[b.ticket], now)
       THEN Commit(UpdateTicketQueue(tickets[b.ticket].fifo, st), calls)
       ELSE Commit(st, calls)
    /\ reapAt' = now + PullRate
    /\ resp' = Resp("timer", 0, b.ticket)
    /\ UNCHANGED <<nfifos, issued, scan, fault, mutexVars, ties, round>>

\* run, lines 189-200 alone: the message of a due timer is received, the
\* registration deleted, the ticket loaded and tested by checkTimeouts.
\* When the row is found and rejected the loop goes on to updateTicketQueue
\* for tick.FifoUUID; else it is back at its select.
RunLoad ==
  \E b \in BagToSet(timers) :
    /\ scan = {}
    /\ round = NoRound
    /\ TimerDue(b.at)
    /\ Commit([Cur EXCEPT !.notifiers = notifiers \ {b.ticket},
                          !.timers = timers (-) SetToBag({b})], calls)
    /\ round' = IF b.ticket \in DOMAIN tickets /\ CheckTimeouts(tickets[b.ticket], now)
                THEN [ticket |-> b.ticket, fifo |-> tickets[b.ticket].fifo]
                ELSE NoRound
    /\ reapAt' = IF round' = NoRound THEN now + PullRate ELSE reapAt
    /\ resp' = Resp("timer", 0, b.ticket)
    /\ UNCHANGED <<nfifos, issued, scan, fault, mutexVars, ties>>

\* a round that deletes the oldest ticket of the FIFO on the word of the
\* copy it loaded, without loading the queue again
RunUpdateByCopy ==
  /\ round # NoRound
  /\ LET q == FirstTwo(tickets, round.fifo) IN
     Commit(IF Len(q) = 0 THEN Cur
            ELSE [Cur EXCEPT !.tickets = Drop(tickets, {q[1]}),
                             !.fate[q[1]] = "evictAccept"], calls)
  /\ round' = NoRound
  /\ reapAt' = now + PullRate
  /\ resp' = NoResp
  /\ UNCHANGED <<nfifos, issued, scan, fault, mutexVars, ties>>

\* run, lines 201-204: m.updateTicketQueue(tick.FifoUUID), its error only
\* logged; the loop is back at its select
RunUpdate ==
  /\ round # NoRound
  /\ Commit(UpdateTicketQueue(round.fifo, Cur), calls)
  /\ round' = NoRound
  /\ reapAt' = now + PullRate
  /\ resp' = NoResp
  /\ UNCHANGED <<nfifos, issued, scan, fault, mutexVars, ties>>

\* a reaper that applies the default timeout of new() to every FIFO
UnusedByDefault(row) == now > Plus(row.updatedAt, Long)

\* the reaper's test of one row, line 216
Unused(row) == now > Plus(row.updatedAt, row.udt)

\* run, lines 206-215, case <-m.clock.After(m.pullRate): m.db.Find(&fifos)
\* loads every row, and the loop tests each loaded row.  The rows found
\* unused are the ones the loop goes on to delete; when there is none the
\* loop is back at its select with a new clock.After(m.pullRate).
RunReap ==
  /\ scan = {}
  /\ round = NoRound
  /\ AfterReady(reapAt)
  /\ scan' = {f \in DOMAIN fifos : Unused(fifos[f])}
  /\ reapAt' = IF scan' = {} THEN now + PullRate ELSE reapAt
  /\ resp' = NoResp
  /\ UNCHANGED <<fifos, nfifos, tickets, issued, fate, waiters, closed,
                 notifiers, timers, calls, fault, mutexVars, ties, round>>

\* run, lines 217-220: m.db.Delete(&fifo) for a row the loop found unused,
\* a statement of its own that names the row by its uuid alone; ON DELETE
\* CASCADE on tickets.fifo_uuid deletes the FIFO's tickets.  After the last
\* row the loop is back at its select.
RunDelete ==
  \E f \in scan :
    /\ LET gone == {t \in DOMAIN tickets : tickets[t].fifo = f} IN
       Commit([Cur EXCEPT !.fifos = Drop(fifos, {f}),
                          !.tickets = Drop(tickets, gone),
                          !.fate = [t \in DOMAIN fate |->
                                      IF t \in gone THEN "reaped" ELSE fate[t]]],
              calls)
    /\ scan' = scan \ {f}
    /\ reapAt' = IF scan' = {} THEN now + PullRate ELSE reapAt
    /\ resp' = NoResp
    /\ UNCHANGED <<nfifos, issued, fault, mutexVars, ties, round>>

\* ----------------------------------------------------------- the store

\* from now on the store fails statement k of updateTicketQueue
Break(k) ==
  /\ fault = "none"
  /\ fault' = k
  /\ resp' = NoResp
  /\ UNCHANGED <<fifos, nfifos, tickets, issued, fate, waiters, closed,
                 notifiers, timers, reapAt, scan, calls, round, ties,
                 mutexVars>>

\* the store works again
Repair ==
  /\ fault # "none"
  /\ fault' = "none"
  /\ resp' = NoResp
  /\ UNCHANGED <<fifos, nfifos, tickets, issued, fate, waiters, closed,
                 notifiers, timers, reapAt, scan, calls, round, ties,
                 mutexVars>>

\* the store returns rows of equal created_at in the other order from now on
Reorder ==
  /\ ties' = IF ties = "asc" THEN "desc" ELSE "asc"
  /\ resp' = NoResp
  /\ UNCHANGED <<fifos, nfifos, tickets, issued, fate, waiters, closed,
                 notifiers, timers, reapAt, scan, fault, mutexVars, round, calls>>

\* ------------------------------------------------------- specification

\* the timeouts FIFOs are created with: all zero, all short, and short
\* stage timeouts with a long wait timeout and a long unused-destroy timeout
Configs ==
  {[wt |-> d, at |-> d, dt |-> d, udt |-> d] : d \in Durations}
    \cup {[wt |-> Long, at |-> MaxDur, dt |-> MaxDur, udt |-> Long]}

\* handlers of the mutex service
MutexCallIds == 1..MaxMutexCalls

\* the zero value of mutex.nonce, the empty string
NoNonce == 0

\* a nonce no lock request was ever answered with
WrongNonce == MaxNonces + 1

FreeMutexCall == [pc |-> "free", uuid |-> Nil, nonce |-> NoNonce]

Init ==
  /\ fifos = <<>>
  /\ nfifos = 0
  /\ tickets = <<>>
  /\ issued = <<>>
  /\ fate = <<>>
  /\ waiters = <<>>
  /\ closed = {}
  /\ notifiers = {}
  /\ timers = EmptyBag
  /\ reapAt = now + PullRate
  /\ scan = {}
  /\ fault = "none"
  /\ round = NoRound
  /\ ties = "asc"
  /\ calls = [c \in CallIds |-> FreeCall]
  /\ resp = NoResp
  /\ mutexes = {}
  /\ mutex = <<>>
  /\ nonces = 0
  /\ mcalls = [c \in MutexCallIds |-> FreeMutexCall]
  /\ fatal = FALSE

\* What clients send.  new: the timeouts of /fifo/new; ovr: its
\* allow_overrides; params: the form values of ticket requests; uuids and
\* tickets: the path values requests carry besides the uuids of stored rows.
Known == [new |-> Configs, ovr |-> {FALSE}, params |-> {NoParams},
          uuids |-> {}, tickets |-> {}]

AnyUuid == [Known EXCEPT !.uuids = FifoIds, !.tickets = TicketIds]

\* the steps of the service with handler slots C and the requests R
Step(C, R) ==
  \/ Tick
  \/ RunNotify
  \/ RunReap
  \/ RunDelete
  \/ \E k \in R.new, o \in R.ovr : New(k.wt, k.at, k.dt, k.udt, o)
  \/ \E c \in C, f \in DOMAIN fifos \cup R.uuids, p \in R.params :
        TicketStart(c, f, p)
  \/ \E c \in C : TicketCreate(c)
  \/ \E c \in C, u \in DOMAIN fifos \cup R.uuids,
        t \in DOMAIN tickets \cup R.tickets : WaitStart(c, u, t)
  \/ \E c \in C : WaitAdd(c)
  \/ \E c \in C : WaitUpdate(c)
  \/ \E c \in C : WaitTimeout(c)
  \/ \E c \in C : WaitWake(c)
  \/ \E c \in C, u \in DOMAIN fifos \cup R.uuids,
        t \in DOMAIN tickets \cup R.tickets : DoneStart(c, u, t)
  \/ \E c \in C : DoneDelete(c)

\* Every interleaving of two handlers with the clock and the manager loop,
\* for clients that name the FIFOs and tickets that exist (a request for
\* any other uuid is answered in one step that changes nothing; SpecFair
\* and SpecHttp have those requests).
Next == Step(CallIds, Known)

Spec == Init /\ [][Next]_vars


\* a timer registered for uuid u has fired and its message is not received
TimerWaiting(u) == \E b \in BagToSet(timers) : b.ticket = u /\ TimerDue(b.at)

\* The messages of fired timers are received in the order they were sent
\* (notifyCh is a channel and run is its only reader), so no fired timer
\* waits for ever: weak fairness of the round of run for each timer.  A
\* round for u is the step that reports "timer" for u, which gives the
\* condition as a formula over states.
TimerFairness ==
  \A u \in TicketIds \cup {Nil} :
    []<>(~TimerWaiting(u) \/ resp = Resp("timer", 0, u))

\* handler c can take its next step: it is between two statements, or it
\* is parked in the select of wait with one of the two cases ready
Runnable(c) ==
  \/ calls[c].pc \in {"create", "add", "utq", "del", "upd", "queue"}
  \/ /\ calls[c].pc = "select"
     /\ calls[c].waitC \in closed \/ AfterReady(calls[c].deadline)

\* A handler's goroutine that can run is scheduled: weak fairness of each
\* handler's next step, which is enabled exactly when the handler is
\* runnable and leaves it at another statement.
HandlerFairness == \A c \in CallIds : []<>(~Runnable(c))

\* One handler at a time and requests for any uuid, with the scheduling the
\* runtime gives without any new request: the clock advances, the goroutine of fifoManager.run, which
\* loops on its select forever, receives every fired timer's message and
\* takes the pullRate case when it stays ready, and a handler that has
\* started runs on.  No request is ever required to arrive.
NextFair == Step({1}, AnyUuid)

SpecFair ==
  /\ Init
  /\ [][NextFair]_vars
  /\ WF_vars(Tick)
  /\ WF_vars(RunReap)
  /\ WF_vars(RunDelete)
  /\ TimerFairness
  /\ HandlerFairness

\* ticket requests that give one duration, or all three, or a string that
\* is no duration
Overrides ==
  {NoParams}
    \cup {[NoParams EXCEPT !.wt = d] : d \in Durations \cup {Unparsable}}
    \cup {[NoParams EXCEPT !.at = d] : d \in Durations \cup {Unparsable}}
    \cup {[NoParams EXCEPT !.dt = d] : d \in Durations \cup {Unparsable}}
    \cup {[wt |-> d, at |-> d, dt |-> d] : d \in Durations}

\* every kind of request: FIFOs with and without allow_overrides, durations
\* that do not parse, uuids of rows that are not stored, path values that
\* are no uuid
AnyRequest ==
  [new |-> Configs \cup {[wt |-> Unparsable, at |-> MaxDur, dt |-> MaxDur, udt |-> MaxDur],
                         [wt |-> MaxDur, at |-> MaxDur, dt |-> MaxDur, udt |-> Unparsable]},
   ovr |-> BOOLEAN, params |-> Overrides,
   uuids |-> FifoIds \cup {Stranger, Malformed}, tickets |-> TicketIds \cup {Malformed}]

\* One handler at a time, every kind of request, and clients that may leave
\* while their wait is blocked.
NextHttp ==
  \/ Step({1}, AnyRequest)
  \/ Disconnect(1)

SpecHttp == Init /\ [][NextHttp]_vars

\* One handler at a time on a store that may fail a statement of
\* updateTicketQueue.
NextFault ==
  \/ Step({1}, Known)
  \/ \E k \in Statements : Break(k)
  \/ Repair

SpecFault == Init /\ [][NextFault]_vars

\* One handler at a time, with every statement that goes to the store a
\* step of its own: done's Delete and its updateTicketQueue call, and the
\* timer case's load of the ticket and its updateTicketQueue call, can each
\* have steps of the other goroutine in between.
NextRace ==
  \/ Tick
  \/ RunLoad
  \/ RunUpdate
  \/ RunReap
  \/ RunDelete
  \/ \E k \in Known.new : New(k.wt, k.at, k.dt, k.udt, FALSE)
  \/ \E f \in DOMAIN fifos : TicketStart(1, f, NoParams)
  \/ TicketCreate(1)
  \/ \E u \in DOMAIN fifos, t \in DOMAIN tickets : WaitStart(1, u, t)
  \/ WaitAdd(1)
  \/ WaitUpdate(1)
  \/ WaitTimeout(1)
  \/ WaitWake(1)
  \/ \E u \in DOMAIN fifos, t \in DOMAIN tickets : DoneStart(1, u, t)
  \/ DoneDeleteRow(1)
  \/ DoneUpdate(1)

SpecRace == Init /\ [][NextRace]_vars

\* Two ticket handlers whose Create and updateTicketQueue call are steps of
\* their own, a wall clock that may give two inserts the same created_at,
\* and a store that is free in the order of rows with equal created_at.
NextTie ==
  \/ Tick
  \/ RunNotify
  \/ RunReap
  \/ RunDelete
  \/ Reorder
  \/ \E k \in Known.new : New(k.wt, k.at, k.dt, k.udt, FALSE)
  \/ \E c \in CallIds, f \in DOMAIN fifos : TicketStart(c, f, NoParams)
  \/ \E c \in CallIds, s \in {CreatedNow, CreatedSame} : TicketInsert(c, s)
  \/ \E c \in CallIds : TicketUpdate(c)
  \/ \E u \in DOMAIN fifos, t \in DOMAIN tickets : DoneStart(1, u, t)
  \/ DoneDelete(1)

SpecTie == Init /\ [][NextTie]_vars

\* no wait for ticket t is under way
NoWaitOn(t) == \A d \in CallIds : ~(calls[d].kind = "wait" /\ calls[d].id = t)

\* Two handlers, at most one wait per ticket at a time, and the manager
\* loop, each statement that goes to the store or to the registry a step of
\* its own: the wait's load of the ticket with getWaiter, its addWaiter, its
\* updateTicketQueue call and its select.  The reaper is left out: it
\* takes whole FIFOs away, and a wait whose ticket is gone is not owed a
\* wake-up.
NextWake ==
  \/ Tick
  \/ RunLoad
  \/ RunUpdate
  \/ \E k \in Known.new : New(k.wt, k.at, k.dt, k.udt, FALSE)
  \/ \E c \in CallIds, f \in DOMAIN fifos : TicketStart(c, f, NoParams)
  \/ \E c \in CallIds : TicketInsert(c, CreatedNow)
  \/ \E c \in CallIds : TicketUpdate(c)
  \/ \E c \in CallIds, u \in DOMAIN fifos, t \in DOMAIN tickets :
        NoWaitOn(t) /\ WaitStart(c, u, t)
  \/ \E c \in CallIds : WaitRegister(c)
  \/ \E c \in CallIds : WaitUpdate(c)
  \/ \E c \in CallIds : WaitTimeout(c)
  \/ \E c \in CallIds : WaitWake(c)
  \/ \E c \in CallIds, u \in DOMAIN fifos, t \in DOMAIN tickets : DoneStart(c, u, t)
  \/ \E c \in CallIds : DoneDeleteRow(c)
  \/ \E c \in CallIds : DoneUpdate(c)

SpecWake == Init /\ [][NextWake]_vars

\* A wait in slot 1 beside the requests that can take its signal away: a
\* done in slot 2, a second wait that reaches addWaiter at the same time,
\* and the reaper; FIFOs with every timeout short.  The scheduling is that
\* of SpecFair: the clock advances and a handler that can run does.
NextTerm ==
  \/ Tick
  \/ RunNotify
  \/ RunReap
  \/ RunDelete
  \/ New(MaxDur, MaxDur, MaxDur, MaxDur, FALSE)
  \/ \E f \in DOMAIN fifos : TicketStart(1, f, NoParams)
  \/ TicketCreate(1)
  \/ \E u \in DOMAIN fifos, t \in DOMAIN tickets : WaitStart(1, u, t)
  \/ \E u \in DOMAIN fifos, t \in DOMAIN tickets :
        calls[1].pc = "add" /\ calls[1].id = t /\ WaitStart(2, u, t)
  \/ \E c \in CallIds : WaitAdd(c)
  \/ \E c \in CallIds : WaitUpdate(c)
  \/ \E c \in CallIds : WaitTimeout(c)
  \/ \E c \in CallIds : WaitWake(c)
  \/ \E u \in DOMAIN fifos, t \in DOMAIN tickets : DoneStart(2, u, t)
  \/ DoneDelete(2)

SpecTerm ==
  /\ Init
  /\ [][NextTerm]_vars
  /\ WF_vars(Tick)
  /\ HandlerFairness

\* Two FIFOs side by side, one handler at a time: requests name either FIFO
\* and any stored ticket, whether or not it belongs to the FIFO named.  Each
\* FIFO has one of the short timeouts.
NextBoth ==
  \/ Tick
  \/ RunNotify
  \/ RunReap
  \/ RunDelete
  \/ \E d \in Durations : NewUpTo(MaxFifosBoth, d, d, d, d, FALSE)
  \/ \E f \in DOMAIN fifos : TicketStart(1, f, NoParams)
  \/ TicketCreate(1)
  \/ \E u \in DOMAIN fifos, t \in DOMAIN tickets : WaitStart(1, u, t)
  \/ WaitAdd(1)
  \/ WaitUpdate(1)
  \/ WaitTimeout(1)
  \/ WaitWake(1)
  \/ \E u \in DOMAIN fifos, t \in DOMAIN tickets : DoneStart(1, u, t)
  \/ DoneDelete(1)

SpecBoth == Init /\ [][NextBoth]_vars

\* ------------------------------------------------------------------ /mutex

\* the FIFO service takes no part in a step of the mutex service
FifoVars ==
  <<fifos, nfifos, tickets, issued, fate, waiters, closed, notifiers, timers,
    reapAt, scan, fault, round, ties, calls>>

FreeMutexSlot(c) ==
  /\ mcalls[c].pc = "free"
  /\ \A d \in MutexCallIds : d < c => mcalls[d].pc # "free"

\* mutexManager.new, lines 37-42: s.mutexes.Put(uuid, &mutex{})
MutexNew ==
  /\ ~fatal
  /\ Cardinality(DOMAIN mutex) < MaxMutexes
  /\ LET u == Cardinality(DOMAIN mutex) + 1 IN
     /\ mutex' = Put(mutex, u, [locked |-> FALSE, nonce |-> NoNonce])
     /\ mutexes' = mutexes \cup {u}
     /\ resp' = Resp("mutex", 200, u)
  /\ UNCHANGED <<FifoVars, nonces, mcalls, fatal>>

\* mutexManager.delete, lines 89-93: the uuid leaves the store; a handler
\* that has got the mutex keeps its pointer
MutexDelete(u) ==
  /\ ~fatal
  /\ mutexes' = mutexes \ {u}
  /\ resp' = Resp("delete", 200, u)
  /\ UNCHANGED <<FifoVars, mutex, nonces, mcalls, fatal>>

\* lock, lines 45-55: s.mutexes.Get(uuid), 404 when absent; newNonce()
LockStart(c, u) ==
  /\ ~fatal
  /\ FreeMutexSlot(c)
  /\ IF u \notin mutexes
     THEN /\ resp' = Resp("lock", 404, u)
          /\ UNCHANGED <<nonces, mcalls>>
     ELSE /\ nonces < MaxNonces
          /\ nonces' = nonces + 1
          /\ mcalls' = [mcalls EXCEPT ![c] =
                          [pc |-> "lock", uuid |-> u, nonce |-> nonces + 1]]
          /\ resp' = NoResp
  /\ UNCHANGED <<FifoVars, mutexes, mutex, fatal>>

\* lock, line 56: m.Lock() returns once the mutex is free
LockAcquire(c) ==
  /\ ~fatal
  /\ mcalls[c].pc = "lock"
  /\ ~mutex[mcalls[c].uuid].locked
  /\ mutex' = [mutex EXCEPT ![mcalls[c].uuid].locked = TRUE]
  /\ mcalls' = [mcalls EXCEPT ![c].pc = "nonce"]
  /\ resp' = NoResp
  /\ UNCHANGED <<FifoVars, mutexes, nonces, fatal>>

\* lock, lines 57-59: m.nonce = nonce, and the response
LockNonce(c) ==
  /\ ~fatal
  /\ mcalls[c].pc = "nonce"
  /\ mutex' = [mutex EXCEPT ![mcalls[c].uuid].nonce = mcalls[c].nonce]
  /\ mcalls' = [mcalls EXCEPT ![c] = FreeMutexCall]
  /\ resp' = Resp("lock", 200, mcalls[c].nonce)
  /\ UNCHANGED <<FifoVars, mutexes, nonces, fatal>>

\* unlock, lines 63-77: s.mutexes.Get(uuid), 404 when absent; the first
\* read of m.nonce, 409 when it is empty.  No lock is held for the read.
UnlockStart(c, u, n) ==
  /\ ~fatal
  /\ FreeMutexSlot(c)
  /\ IF u \notin mutexes
     THEN resp' = Resp("unlock", 404, u) /\ UNCHANGED mcalls
     ELSE IF mutex[u].nonce = NoNonce
     THEN resp' = Resp("unlock", 409, u) /\ UNCHANGED mcalls
     ELSE /\ mcalls' = [mcalls EXCEPT ![c] =
                          [pc |-> "compare", uuid |-> u, nonce |-> n]]
          /\ resp' = NoResp
  /\ UNCHANGED <<FifoVars, mutexes, mutex, nonces, fatal>>

\* unlock, lines 78-82: the second read of m.nonce, 403 when it is not the
\* nonce of the request
UnlockCompare(c) ==
  /\ ~fatal
  /\ mcalls[c].pc = "compare"
  /\ IF mutex[mcalls[c].uuid].nonce # mcalls[c].nonce
     THEN /\ mcalls' = [mcalls EXCEPT ![c] = FreeMutexCall]
          /\ resp' = Resp("unlock", 403, mcalls[c].uuid)
     ELSE /\ mcalls' = [mcalls EXCEPT ![c].pc = "clear"]
          /\ resp' = NoResp
  /\ UNCHANGED <<FifoVars, mutexes, mutex, nonces, fatal>>

\* unlock, line 84: m.nonce = ""
UnlockClear(c) ==
  /\ ~fatal
  /\ mcalls[c].pc = "clear"
  /\ mutex' = [mutex EXCEPT ![mcalls[c].uuid].nonce = NoNonce]
  /\ mcalls' = [mcalls EXCEPT ![c].pc = "unlock"]
  /\ resp' = NoResp
  /\ UNCHANGED <<FifoVars, mutexes, nonces, fatal>>

\* unlock, lines 85-87: m.Unlock().  sync.Mutex.Unlock of a mutex that is
\* not locked ends the process with "fatal error: sync: unlock of unlocked
\* mutex", which no recover catches.
UnlockRelease(c) ==
  /\ ~fatal
  /\ mcalls[c].pc = "unlock"
  /\ IF mutex[mcalls[c].uuid].locked
     THEN /\ mutex' = [mutex EXCEPT ![mcalls[c].uuid].locked = FALSE]
          /\ mcalls' = [mcalls EXCEPT ![c] = FreeMutexCall]
          /\ resp' = Resp("unlock", 200, mcalls[c].uuid)
          /\ UNCHANGED fatal
     ELSE /\ fatal' = TRUE
          /\ resp' = NoResp
          /\ UNCHANGED <<mutex, mcalls>>
  /\ UNCHANGED <<FifoVars, mutexes, nonces>>

\* The mutex service: every handler runs in its own goroutine, and nothing
\* but sync.Mutex orders their steps.
NextMutex ==
  \/ MutexNew
  \/ \E u \in DOMAIN mutex : MutexDelete(u)
  \/ \E c \in MutexCallIds, u \in DOMAIN mutex : LockStart(c, u)
  \/ \E c \in MutexCallIds : LockAcquire(c)
  \/ \E c \in MutexCallIds : LockNonce(c)
  \/ \E c \in MutexCallIds, u \in DOMAIN mutex, n \in 1..nonces \cup {WrongNonce} :
        UnlockStart(c, u, n)
  \/ \E c \in MutexCallIds : UnlockCompare(c)
  \/ \E c \in MutexCallIds : UnlockClear(c)
  \/ \E c \in MutexCallIds : UnlockRelease(c)

SpecMutex == Init /\ [][NextMutex]_vars

\* ------------------------------------------------------------ properties

\* the stored tickets of the FIFO of stored ticket t that were created
\* before t
EarlierStored(t) ==
  {u \in DOMAIN tickets : /\ tickets[u].fifo = tickets[t].fifo
                          /\ tickets[u].createdAt < tickets[t].createdAt}

\* the tickets ever issued for the FIFO of t that were created before t
EarlierIssued(t) ==
  {u \in DOMAIN issued : /\ issued[u].fifo = issued[t].fifo
                         /\ issued[u].createdAt < issued[t].createdAt}

Accepted(f) == {t \in FifoTickets(tickets, f) : tickets[t].acceptedAt # Nil}

\* C1 -- mutual exclusion: in every reachable state, under every
\* interleaving of ticket, wait, done, timer and reaper steps, at most one
\* stored ticket of a FIFO has acceptedAt set.
MutualExclusion == \A f \in FifoIds : Cardinality(Accepted(f)) <= 1

\* C1, the case: a ticket is accepted while a later ticket of its FIFO is
\* stored behind it
MutualExclusionCase ==
  \E t \in DOMAIN tickets :
    /\ tickets[t].acceptedAt # Nil
    /\ \E u \in DOMAIN tickets : t \in EarlierStored(u) /\ tickets[u].acceptedAt = Nil

\* C2 -- whenever a stored ticket has notifiedAt set, no other stored ticket
\* of its FIFO has an earlier createdAt: a ticket is promoted to head only
\* after every earlier ticket has been deleted.
NotifiedIsOldest ==
  \A t \in DOMAIN tickets : tickets[t].notifiedAt # Nil => EarlierStored(t) = {}

\* C2, the case: a ticket was promoted after an earlier ticket of its FIFO
\* had been deleted
NotifiedIsOldestCase ==
  \E t \in DOMAIN tickets :
    /\ tickets[t].notifiedAt # Nil
    /\ \E u \in EarlierIssued(t) : u \notin DOMAIN tickets

\* some wait call on ticket u has returned 200 while the row was stored
Granted(u) ==
  \/ fate[u] = "done"
  \/ u \in DOMAIN tickets /\ tickets[u].acceptedAt # Nil

\* C3 -- FIFO fairness: when a wait call on ticket t returns 200, every
\* ticket created earlier for the same FIFO whose owner keeps to the
\* protocol (its row was not evicted, reaped or withdrawn: it is stored, or
\* was deleted by done after a wait on it returned) has already had a wait
\* call return 200.  So the wait calls return 200 in creation order.
FifoFairness ==
  \A t \in DOMAIN issued :
    resp = Resp("wait", 200, t) =>
      \A u \in EarlierIssued(t) : fate[u] \in {"stored", "done"} => Granted(u)

\* C3, the case: two waits returned 200 in creation order, the first ticket
\* having been accepted and done
FifoFairnessCase ==
  \E t \in DOMAIN tickets :
    /\ resp = Resp("wait", 200, t)
    /\ tickets[t].acceptedAt = now
    /\ \E u \in EarlierIssued(t) : fate[u] = "done"

\* a done call for ticket t is in flight
DoneInFlight(t) == \E d \in CallIds : calls[d].kind = "done" /\ calls[d].id = t

\* C4 -- broadcast wait: when a ticket is the active head (stored and
\* notified) and no done for it has been called, every wait call parked on
\* it has been released (its channel is closed), however the callers' load,
\* register, updateTicketQueue and select steps interleaved.
BroadcastWait ==
  \A c \in CallIds :
    (/\ calls[c].pc = "select"
     /\ calls[c].id \in DOMAIN tickets
     /\ tickets[calls[c].id].notifiedAt # Nil
     /\ ~DoneInFlight(calls[c].id))
      => calls[c].waitC \in closed

\* C5 -- accept-timeout eviction releases the next ticket's waiters: when
\* a ticket of a FIFO with a positive accept timeout has been evicted for
\* not being accepted and a later ticket of the FIFO is now the oldest one
\* stored, that ticket is notified and every wait call parked on it has been
\* released (its channel is closed), unless a done for it is under way.
AcceptEvictionReleases ==
  \A c \in CallIds :
    (/\ calls[c].pc = "select"
     /\ calls[c].id \in DOMAIN tickets
     /\ tickets[calls[c].id].at > 0
     /\ EarlierStored(calls[c].id) = {}
     /\ \E u \in EarlierIssued(calls[c].id) : fate[u] = "evictAccept"
     /\ ~DoneInFlight(calls[c].id))
      => /\ tickets[calls[c].id].notifiedAt # Nil
         /\ calls[c].waitC \in closed

\* the part of C5 that is driven by the timer alone: a notified ticket with
\* a positive accept timeout does not stay stored and unaccepted for ever
AcceptTimeoutEvicts ==
  \A t \in TicketIds :
    (/\ t \in DOMAIN tickets
     /\ tickets[t].notifiedAt # Nil
     /\ tickets[t].acceptedAt = Nil
     /\ tickets[t].at > 0)
      ~> (t \notin DOMAIN tickets \/ tickets[t].acceptedAt # Nil)

\* C6 -- done-timeout eviction: an accepted ticket with a positive done
\* timeout is eventually deleted, whether or not any further request
\* arrives (the clock and the manager loop are all that is scheduled).
DoneTimeoutEvicts ==
  \A t \in TicketIds :
    (/\ t \in DOMAIN tickets
     /\ tickets[t].acceptedAt # Nil
     /\ tickets[t].dt > 0)
      ~> (t \notin DOMAIN tickets)

\* the ticket's row was deleted by an accept- or done-timeout
Evicted(t) == t \in DOMAIN fate /\ fate[t] \in {"evictAccept", "evictDone"}

\* C7 -- a wait call never answers 200 for a ticket that has been evicted
\* before the call responds.  Stated for the FIFOs whose accept timeout is
\* positive, where a ticket is evicted only after time has passed.
NoGrantAfterEviction ==
  \A t \in DOMAIN issued :
    ~(/\ resp = Resp("wait", 200, t)
      /\ Evicted(t)
      /\ issued[t].fifo \in DOMAIN fifos
      /\ fifos[issued[t].fifo].at > 0)

ZeroMeansDisabled ==
  /\ \A b \in BagToSet(timers) :
       b.ticket \in DOMAIN tickets => tickets[b.ticket].at # 0
  /\ \A t \in DOMAIN tickets :
       resp = Resp("wait", 408, t) => tickets[t].wt # 0

ActiveNeverReaped ==
  [][\A f \in DOMAIN fifos :
       (f \notin DOMAIN fifos' /\ fifos[f].udt > 0)
         => now > Plus(fifos[f].updatedAt, fifos[f].udt)]_vars

\* ticket t was deleted by a done call, which answered 200
DoneReturned(t) == t \in DOMAIN fate /\ fate[t] \in {"done", "withdrawn"}

\* C12 -- idempotent done: once a done call for ticket t has answered 200
\* (and no other done for t that started before is still running), a done
\* call for t answers 404 and changes neither the store nor the waiter
\* registry nor the timers, so the head of the queue stays as it is.
DoneIdempotent ==
  [][\A t \in TicketIds :
       (/\ DoneReturned(t)
        /\ ~DoneInFlight(t)
        /\ resp'.kind = "done"
        /\ resp'.id = t)
         => /\ resp'.code = 404
            /\ UNCHANGED <<fifos, tickets, waiters, closed, notifiers, timers>>]_vars

\* C12, the case: a second done for a ticket that was accepted and done has
\* answered 404 while a later ticket of the FIFO is stored
DoneIdempotentCase ==
  \E t \in DOMAIN fate :
    /\ fate[t] = "done"
    /\ resp = Resp("done", 404, t)
    /\ \E u \in DOMAIN tickets : t \in EarlierIssued(u)

\* C13 -- done(t) fires and removes the waiter signal of t: once a done
\* call for ticket t has returned 200 and no done for t is still running,
\* every wait call still blocked in its select on t (entered with a positive
\* wait timeout) holds a channel that has been closed, and the registry has
\* no entry for t.
DoneReleasesWaits ==
  \A t \in DOMAIN fate :
    (DoneReturned(t) /\ ~DoneInFlight(t))
      => /\ \A c \in CallIds :
              (calls[c].pc = "select" /\ calls[c].id = t /\ calls[c].tick.wt > 0)
                => calls[c].waitC \in closed
         /\ ((\A c \in CallIds : calls[c].id # t) => t \notin DOMAIN waiters)

\* C14 -- cancellation: the step by which a wait handler whose client has
\* disconnected leaves its select changes no ticket row (notifiedAt and
\* acceptedAt of every ticket stay as they are).
CancelledWaitChangesNothing ==
  [][\A c \in CallIds :
       (calls[c].ctxDone /\ calls'[c].pc = "free") => tickets' = tickets]_vars

\* ticket t is the only stored ticket of its FIFO
Alone(t) == t \in DOMAIN tickets /\ FifoTickets(tickets, tickets[t].fifo) = {t}

\* the accept timeout of the notified row has not been exceeded, a timeout
\* of 0 being none
WithinAccept(row) == row.at = 0 \/ now <= Plus(row.notifiedAt, row.at)

\* handler c runs a wait for t, the only ticket of its FIFO, which is
\* notified, not accepted and within its accept timeout
FlowWait(c, t) ==
  /\ calls[c].kind = "wait"
  /\ calls[c].id = t
  /\ Alone(t)
  /\ tickets[t].notifiedAt # Nil
  /\ tickets[t].acceptedAt = Nil
  /\ WithinAccept(tickets[t])

\* C15 -- basic flow: a ticket created on a FIFO with no other stored
\* ticket is notified when the ticket request answers 200; a wait on it
\* (within its accept timeout) keeps the ticket, finds its channel closed
\* when it reaches its select and, unless its wait timeout ends first,
\* answers 200 with acceptedAt set; and a done on it, its FIFO being stored,
\* answers 200 and leaves the ticket deleted.
BasicFlow ==
  [][\A t \in TicketIds :
       /\ (resp' = Resp("ticket", 200, t) /\ FifoTickets(tickets', tickets'[t].fifo) = {t})
            => tickets'[t].notifiedAt # Nil
       /\ \A c \in CallIds :
            /\ (/\ FlowWait(c, t)
                /\ calls[c].pc \in {"add", "utq"}
                /\ calls'[c].pc # calls[c].pc)
                 => /\ t \in DOMAIN tickets'
                    /\ calls'[c].pc = "select"
                    /\ calls'[c].waitC \in closed'
            /\ (/\ FlowWait(c, t)
                /\ calls[c].pc = "select"
                /\ calls[c].tick.wt = 0 \/ ~AfterReady(calls[c].deadline)
                /\ calls'[c].pc = "free")
                 => /\ resp' = Resp("wait", 200, t)
                    /\ tickets'[t].acceptedAt # Nil
            /\ (/\ calls[c].pc = "del"
                /\ calls[c].id = t
                /\ Alone(t)
                /\ tickets[t].fifo \in DOMAIN fifos
                /\ calls'[c].pc = "free")
                 => /\ resp' = Resp("done", 200, t)
                    /\ t \notin DOMAIN tickets']_vars

\* C16 -- with T1 and T2 created in that order on one FIFO, a wait on T2
\* answers 200 only when T1 is no longer stored, its row having been deleted
\* by done or by eviction: never while T1 is stored.
WaitBehindHead ==
  \A t \in DOMAIN issued :
    resp = Resp("wait", 200, t) =>
      \A u \in EarlierIssued(t) :
        /\ u \notin DOMAIN tickets
        /\ DoneReturned(u) \/ Evicted(u)

\* C16, the case: a wait on the second ticket has answered 200 and accepted
\* it after the first ticket was evicted for not being accepted in time
WaitBehindHeadCase ==
  \E t \in DOMAIN tickets :
    /\ resp = Resp("wait", 200, t)
    /\ tickets[t].acceptedAt = now
    /\ \E u \in EarlierIssued(t) : fate[u] = "evictAccept"

\* the three stage durations of a ticket row or a FIFO row
Stages(row) == <<row.wt, row.at, row.dt>>

\* the durations a ticket created on FIFO row fifo by a request with form
\* values p is to have
Requested(fifo, p) ==
  IF fifo.allowOverrides
  THEN <<IF p.wt = Nil THEN fifo.wt ELSE p.wt,
         IF p.at = Nil THEN fifo.at ELSE p.at,
         IF p.dt = Nil THEN fifo.dt ELSE p.dt>>
  ELSE Stages(fifo)

\* C17 -- per-ticket overrides: the ticket a request creates has the FIFO's
\* three stage durations, each replaced by the request's parameter when the
\* FIFO allows overrides and the parameter is given, and the FIFO's
\* durations when it does not allow them; and no step changes the durations
\* or allow_overrides of a FIFO that stays stored, nor the durations of a
\* ticket that stays stored.
PerTicketOverrides ==
  [][/\ \A c \in CallIds, t \in TicketIds :
          (calls[c].pc = "create" /\ resp' = Resp("ticket", 200, t))
            => /\ t \notin DOMAIN tickets
               /\ t \in DOMAIN tickets'
               /\ Stages(tickets'[t]) = Requested(fifos[calls[c].fifo], calls[c].form)
     /\ \A f \in DOMAIN fifos \cap DOMAIN fifos' :
          /\ Stages(fifos'[f]) = Stages(fifos[f])
          /\ fifos'[f].udt = fifos[f].udt
          /\ fifos'[f].allowOverrides = fifos[f].allowOverrides
     /\ \A t \in DOMAIN tickets \cap DOMAIN tickets' :
          Stages(tickets'[t]) = Stages(tickets[t])]_vars

\* C17, the case: a ticket has just been created with an accept timeout
\* other than its FIFO's, next to a stored ticket that has the FIFO's
\* durations
PerTicketOverridesCase ==
  \E t \in DOMAIN tickets :
    /\ resp = Resp("ticket", 200, t)
    /\ tickets[t].at # fifos[tickets[t].fifo].at
    /\ \E u \in DOMAIN tickets \ {t} :
         Stages(tickets[u]) = Stages(fifos[tickets[u].fifo])

\* C18 -- invalid input changes no state: a ticket request that carries an
\* unparsable duration parameter is answered 400 and creates no ticket; no
\* FIFO is stored with a duration that did not parse; and a wait or done
\* whose ticket path value is no uuid is answered 400 by a step that leaves
\* store, registry and timers as they are.
InvalidInputRejected ==
  [][/\ \A c \in CallIds :
          (/\ calls[c].kind = "ticket"
           /\ Unparsable \in {calls[c].form.wt, calls[c].form.at, calls[c].form.dt}
           /\ calls'[c].pc = "free")
            => /\ resp'.code = 400
               /\ tickets' = tickets
     /\ \A f \in DOMAIN fifos' :
          Unparsable \notin {fifos'[f].wt, fifos'[f].at, fifos'[f].dt, fifos'[f].udt}
     /\ (resp'.kind \in {"wait", "done"} /\ resp'.id = Malformed)
          => /\ resp'.code = 400
             /\ UNCHANGED <<fifos, tickets, waiters, closed, notifiers, timers>>]_vars

\* a wait or done request for ticket path value t is answered by the step
\* that receives it
AnsweredAtOnce(t) ==
  /\ resp'.kind \in {"wait", "done"}
  /\ resp'.id = t
  /\ calls' = calls

\* C19 -- a wait or done for a ticket uuid that has no row is answered 404,
\* and one for a stored ticket under the path of another FIFO is answered
\* 400: such a request never gets past the comparison (every wait or done that
\* runs on names the FIFO of its ticket), and the step that answers it
\* leaves store, registry and timers as they are.
UnknownOrForeignTicket ==
  [][/\ \A t \in TicketIds :
          AnsweredAtOnce(t)
            => /\ resp'.code = IF t \in DOMAIN tickets THEN 400 ELSE 404
               /\ UNCHANGED <<fifos, tickets, fate, waiters, closed,
                              notifiers, timers>>
     /\ \A c \in CallIds :
          calls'[c].kind \in {"wait", "done"}
            => /\ calls'[c].id \in DOMAIN issued
               /\ calls'[c].fifo = issued[calls'[c].id].fifo]_vars

\* C19, the case: a done for a stored, accepted ticket under the path of
\* another FIFO has been answered 400 and the ticket is still accepted
UnknownOrForeignTicketCase ==
  \E t \in DOMAIN tickets :
    /\ resp = Resp("done", 400, t)
    /\ tickets[t].acceptedAt # Nil

\* C20 -- a store failure inside updateTicketQueue is answered 500 and
\* leaves no change of the call behind: while the store fails the FIFO load,
\* the updatedAt write or the scan of the two oldest tickets, the step in
\* which a ticket, wait or done handler runs updateTicketQueue answers 500
\* and leaves the FIFO rows as they were.
StoreFailureIs500 ==
  [][\A c \in CallIds :
       (/\ fault \in {"load", "touch", "scan"}
        /\ calls[c].pc \in {"create", "add", "utq", "del"}
        /\ calls'[c].pc # calls[c].pc)
         => /\ resp'.code = 500
            /\ fifos' = fifos]_vars

\* notifyOnce registers ticket t in this step, arming a timer for it
Armed(t) == t \notin notifiers /\ t \in notifiers'

\* C21 -- the timer armed for head H fires at H.notifiedAt + H.acceptTimeout
\* when H is not accepted and at H.acceptedAt + H.doneTimeout when it is: a
\* step that registers a stored ticket adds a timer for it whose deadline
\* is the deadline of the ticket's stage.
TimerAtStageDeadline ==
  [][\A t \in DOMAIN tickets' :
       Armed(t) =>
         \E b \in BagToSet(timers') :
           /\ b.ticket = t
           /\ b.at = Max({Deadline(tickets'[t]), Past})
           /\ CopiesIn(b, timers') > CopiesIn(b, timers)]_vars

\* the timers armed for ticket t that have not fired yet
Pending(t) == {b \in BagToSet(timers) : b.ticket = t /\ ~TimerDue(b.at)}

\* C22 -- single-flight timers: for each stored ticket at most one timer
\* that was armed and has not fired is pending, however often
\* updateTicketQueue ran and whether or not the ticket was accepted meanwhile.
SingleFlightTimers ==
  \A t \in DOMAIN tickets :
    BagCardinality([b \in Pending(t) |-> timers[b]]) <= 1

\* C23 -- forward progress of the engine: a stored head ticket that has
\* exceeded its stage timeout (a positive accept timeout while notified and
\* unaccepted, a positive done timeout once accepted) is eventually deleted
\* by the timers alone, no client request being required.
StaleHeadEvicted ==
  \A t \in TicketIds :
    (/\ t \in DOMAIN tickets
     /\ EarlierStored(t) = {}
     /\ tickets[t].at > 0
     /\ tickets[t].dt > 0
     /\ CheckTimeouts(tickets[t], now))
      ~> (t \notin DOMAIN tickets)

\* C24 -- every key of the waiter registry is the uuid of a stored ticket,
\* whatever the interleaving of wait with done, eviction and the reaper.
WaitersAreStored == DOMAIN waiters \subseteq DOMAIN tickets

\* handler c leaves the select of its wait through the closed channel
Wakes(c) ==
  /\ calls[c].pc = "select"
  /\ calls'[c].pc = "free"
  /\ resp'.kind = "wait"
  /\ resp'.code # 408

\* C25 -- acceptedAt is written once: a wait that wakes for a stored ticket
\* which is already accepted changes no ticket row and answers 200, and the
\* acceptedAt of a stored ticket, once set, stays the same instant (as an
\* offset from the present it only ages with the clock).
AcceptedOnce ==
  [][/\ \A c \in CallIds :
          (/\ Wakes(c)
           /\ calls[c].id \in DOMAIN tickets
           /\ tickets[calls[c].id].acceptedAt # Nil)
            => /\ tickets' = tickets
               /\ resp'.code = 200
     /\ \A t \in DOMAIN tickets \cap DOMAIN tickets' :
          tickets[t].acceptedAt # Nil
            => tickets'[t].acceptedAt \in
                 {tickets[t].acceptedAt, Age(tickets[t].acceptedAt, Floor)}]_vars

\* row has exceeded the timeout of its stage
StaleRow(row) ==
  \/ /\ row.notifiedAt # Nil
     /\ row.acceptedAt = Nil
     /\ now > Plus(row.notifiedAt, row.at)
  \/ /\ row.acceptedAt # Nil
     /\ now > Plus(row.acceptedAt, row.dt)

\* the tickets the engine deletes in this step
EvictedNow ==
  {t \in DOMAIN tickets : t \notin DOMAIN tickets' /\ Evicted(t)'}

\* C26 -- one eviction step per call: a step deletes at most one ticket as
\* timed out; that ticket was the oldest stored ticket of its FIFO and had
\* exceeded the timeout of its stage; the oldest ticket then left in the
\* FIFO is notified, with notifiedAt = now when it was not notified before;
\* and the call does not fail.  So a healthy head and a ticket behind the
\* head are never deleted by the engine.
OneEvictionPerCall ==
  [][/\ Cardinality(EvictedNow) <= 1
     /\ \A t \in EvictedNow :
          /\ EarlierStored(t) = {}
          /\ StaleRow(tickets[t])
          /\ resp'.code # 500
          /\ \A u \in DOMAIN tickets' :
               (tickets'[u].fifo = tickets[t].fifo /\ EarlierStored(u)' = {})
                 => /\ tickets'[u].notifiedAt # Nil
                    /\ (u \in DOMAIN tickets /\ tickets[u].notifiedAt = Nil)
                         => tickets'[u].notifiedAt = now]_vars

\* C26, the case: the head was evicted after its done timeout and the
\* ticket behind it is stored and has just been notified
OneEvictionPerCallCase ==
  \E u \in DOMAIN tickets :
    /\ tickets[u].notifiedAt = now
    /\ tickets[u].acceptedAt = Nil
    /\ \E t \in EarlierIssued(u) : fate[t] = "evictDone"

\* the oldest stored ticket of FIFO f
HeadOf(f) == Oldest(tickets, FifoTickets(tickets, f))

\* handler c, a wait, runs updateTicketQueue in this step on a FIFO whose
\* head is notified and has not exceeded the timeout of its stage
UpdatesHealthy(c) ==
  /\ calls[c].pc \in {"add", "utq"}
  /\ calls'[c].pc # calls[c].pc
  /\ calls[c].fifo \in DOMAIN fifos
  /\ FifoTickets(tickets, calls[c].fifo) # {}
  /\ tickets[HeadOf(calls[c].fifo)].notifiedAt # Nil
  /\ ~StaleRow(tickets[HeadOf(calls[c].fifo)])

\* C27 -- updateTicketQueue is idempotent on a healthy head: run on a FIFO
\* whose head is notified and not stale it changes no ticket row (the
\* head's notifiedAt stays as it is), writes nothing to the FIFO rows but
\* the updatedAt of its FIFO, and arms no timer when one is pending for the
\* head.
IdempotentOnHealthyHead ==
  [][\A c \in CallIds :
       UpdatesHealthy(c)
         => /\ tickets' = tickets
            /\ fifos' = [fifos EXCEPT ![calls[c].fifo].updatedAt = now]
            /\ Pending(HeadOf(calls[c].fifo)) # {} => timers' = timers]_vars

\* C28 -- when the timer of ticket u fires, its registration is removed;
\* when u has no row, nothing else changes (store, registry and the other
\* timers stay as they are); when u is stored and has not exceeded the
\* timeout of its stage, no ticket and no FIFO row changes
\* (updateTicketQueue is not run); when u is stored and stale,
\* updateTicketQueue runs for its FIFO: updatedAt becomes now and u is
\* deleted.
TimerRound ==
  [][\A u \in TicketIds \cup {Nil} :
       resp' = Resp("timer", 0, u)
         => /\ u \notin notifiers'
            /\ u \notin DOMAIN tickets
                 => /\ UNCHANGED <<fifos, tickets, fate, waiters, closed>>
                    /\ notifiers' = notifiers \ {u}
                    /\ BagCardinality(timers') = BagCardinality(timers) - 1
            /\ (u \in DOMAIN tickets /\ ~StaleRow(tickets[u]))
                 => UNCHANGED <<fifos, tickets, fate, waiters, closed>>
            /\ (u \in DOMAIN tickets /\ StaleRow(tickets[u]))
                 => /\ u \notin DOMAIN tickets'
                    /\ fifos'[tickets[u].fifo].updatedAt = now]_vars

\* C28, the case: the timer of a stored, accepted ticket that is within its
\* done timeout has fired, and the ticket is stored and no longer registered
TimerRoundCase ==
  \E u \in DOMAIN tickets :
    /\ resp = Resp("timer", 0, u)
    /\ tickets[u].acceptedAt # Nil
    /\ ~StaleRow(tickets[u])
    /\ u \notin notifiers

\* this step is the updateTicketQueue call of done (handler 1) or of the
\* timer round, for FIFO f
UpdateOf(f) ==
  \/ calls[1].pc = "upd" /\ calls'[1].pc = "free" /\ calls[1].fifo = f
  \/ round # NoRound /\ round' = NoRound /\ round.fifo = f

\* the tickets of FIFO f that are stored and notified
NotifiedOf(f) == {t \in FifoTickets(tickets, f) : tickets[t].notifiedAt # Nil}

ScanEveryPullRate ==
  [][resp'.kind = "timer" => reapAt' <= reapAt]_vars

\* ticket t comes before ticket u in the order by createdAt, then by uuid
Precedes(tks, t, u) ==
  /\ tks[t].fifo = tks[u].fifo
  /\ \/ tks[t].createdAt < tks[u].createdAt
     \/ tks[t].createdAt = tks[u].createdAt /\ t < u

\* C31 -- head selection follows the total order by createdAt with ties
\* broken by uuid: a ticket that updateTicketQueue notifies has no stored
\* ticket of its FIFO before it in that order, also when another stored
\* ticket has the same createdAt.
HeadByCreatedAtThenUuid ==
  [][\A u \in DOMAIN tickets' :
       (/\ tickets'[u].notifiedAt # Nil
        /\ u \in DOMAIN tickets => tickets[u].notifiedAt = Nil)
         => ~\E t \in DOMAIN tickets' : Precedes(tickets', t, u)]_vars

\* C32 -- no waiter channel is closed twice.  updateTicketQueue closes only
\* the channel it finds in the registry under the ticket's uuid, so it is
\* enough that a channel in the registry is never a closed one and that no
\* two uuids share a channel: every channel that is closed is open until
\* then.
ClosedAtMostOnce ==
  /\ \A t \in DOMAIN waiters : waiters[t] \notin closed
  /\ \A t, u \in DOMAIN waiters : t # u => waiters[t] # waiters[u]

\* C32, the case: a wait is parked on the channel of its ticket, which has
\* been closed, and another wait for the same stored ticket is about to
\* run updateTicketQueue again
ClosedAtMostOnceCase ==
  \E c, d \in CallIds :
    /\ c # d
    /\ calls[c].pc = "select"
    /\ calls[c].waitC \in closed
    /\ calls[d].pc \in {"add", "utq"}
    /\ calls[d].id = calls[c].id
    /\ calls[c].id \in DOMAIN tickets

\* a done for ticket t is under way
DoneOn(t) == \E d \in CallIds : calls[d].kind = "done" /\ calls[d].id = t

\* C33 -- no lost wake-up for a single waiter: a wait that is parked in its
\* select while its ticket is stored and notified, with no done for the
\* ticket under way, has its channel closed, so it is released and does not
\* stay parked until its wait timeout; in whatever order its steps and the
\* updateTicketQueue call that notified the ticket were taken.
NoLostWakeup ==
  \A c \in CallIds :
    (/\ calls[c].pc = "select"
     /\ calls[c].id \in DOMAIN tickets
     /\ tickets[calls[c].id].notifiedAt # Nil
     /\ ~DoneOn(calls[c].id))
      => calls[c].waitC \in closed

\* C33, the case: the wait loaded its ticket before the ticket was notified,
\* and is parked on its closed channel with the ticket notified meanwhile
NoLostWakeupCase ==
  \E c \in CallIds :
    /\ calls[c].pc = "select"
    /\ calls[c].tick.due = Nil
    /\ calls[c].id \in DOMAIN tickets
    /\ tickets[calls[c].id].notifiedAt # Nil
    /\ calls[c].waitC \in closed

\* C34 -- every wait whose ticket has a wait timeout above 0 terminates: a
\* wait that is parked in its select leaves it, also when its channel is
\* never closed because done removed the ticket, another wait replaced its
\* registry entry or the reaper deleted its FIFO.
WaitTerminates ==
  \A c \in CallIds :
    (calls[c].pc = "select" /\ calls[c].tick.wt \in 1..MaxDur)
      ~> (calls[c].pc # "select")

\* C34, the case: a wait has answered 408 for a ticket that done or the
\* reaper deleted
WaitTerminatesCase ==
  /\ resp.kind = "wait"
  /\ resp.code = 408
  /\ resp.id \in DOMAIN fate
  /\ fate[resp.id] \in {"done", "withdrawn", "reaped"}

\* C35 -- when updateTicketQueue returns an error the memory of the manager
\* is as it was before the call: the step of a handler that answers 500
\* removes no entry of the waiter registry, closes no registered channel and
\* adds no timer registration and no timer.
FailureKeepsMemory ==
  [][(resp'.code = 500 /\ resp'.kind \in {"ticket", "wait", "done"})
       => /\ \A t \in DOMAIN waiters :
               /\ t \in DOMAIN waiters'
               /\ waiters'[t] = waiters[t]
               /\ waiters[t] \in closed' => waiters[t] \in closed
          /\ notifiers' \subseteq notifiers
          /\ BagCardinality(timers') <= BagCardinality(timers)]_vars

\* C36 -- once every wait on a ticket has returned with 200, 408 or 410,
\* the waiter registry has no entry for the ticket: the step in which the
\* last wait under way for a ticket returns leaves none.
LastWaitClearsEntry ==
  [][\A c \in CallIds :
       (/\ calls[c].kind = "wait"
        /\ calls'[c].pc = "free"
        /\ resp'.kind = "wait"
        /\ resp'.code \in {200, 408, 410}
        /\ \A d \in CallIds \ {c} :
              ~(calls[d].kind = "wait" /\ calls[d].id = calls[c].id))
         => calls[c].id \notin DOMAIN waiters']_vars

\* C37 -- a stored ticket that is accepted is notified, and was accepted no
\* earlier than it was notified.
AcceptedAfterNotified ==
  \A t \in DOMAIN tickets :
    tickets[t].acceptedAt # Nil
      => /\ tickets[t].notifiedAt # Nil
         /\ tickets[t].acceptedAt >= tickets[t].notifiedAt

\* C37, the case: a stored ticket was accepted some time after it was
\* notified
AcceptedAfterNotifiedCase ==
  \E t \in DOMAIN tickets :
    /\ tickets[t].acceptedAt # Nil
    /\ tickets[t].notifiedAt # Nil
    /\ tickets[t].acceptedAt > tickets[t].notifiedAt

\* handler d takes a step (the clock only ages what a handler holds)
Moves(d) == calls'[d].pc # calls[d].pc

\* the FIFOs a step operates on: the FIFO a handler that moves was called
\* for, and the FIFO of the ticket whose timer a round of run has received
OperatedOn ==
  {calls[c].fifo : c \in {d \in CallIds : calls[d].pc # "free" /\ Moves(d)}}
    \cup {calls'[c].fifo : c \in {d \in CallIds : calls[d].pc = "free" /\ Moves(d)}}
    \cup (IF resp'.kind = "timer" /\ resp'.id \in DOMAIN tickets
          THEN {tickets[resp'.id].fifo} ELSE {})

\* the step is one of a ticket, wait or done handler or a timer round
Operation ==
  \/ \E d \in CallIds : Moves(d)
  \/ resp'.kind \in {"ticket", "wait", "done", "timer"}

\* the step leaves FIFO f and its tickets as they are
Untouched(f) ==
  /\ f \in DOMAIN fifos'
  /\ fifos'[f] = fifos[f]
  /\ \A t \in DOMAIN tickets :
       tickets[t].fifo = f => t \in DOMAIN tickets' /\ tickets'[t] = tickets[t]
  /\ \A t \in DOMAIN tickets' \ DOMAIN tickets : tickets'[t].fifo # f

\* C38 -- a step of a ticket, wait or done handler or of a timer round
\* changes, deletes, notifies and accepts no ticket of a FIFO other than
\* the one it operates on, and leaves every other FIFO's updatedAt alone.
FifosIsolated ==
  [][Operation => \A f \in DOMAIN fifos \ OperatedOn : Untouched(f)]_vars

\* C38, the case: a done for a ticket of one FIFO has answered 200 while the
\* other FIFO holds a ticket that is notified and accepted
FifosIsolatedCase ==
  \E t \in DOMAIN issued, u \in DOMAIN tickets :
    /\ resp = Resp("done", 200, t)
    /\ t \notin DOMAIN tickets
    /\ tickets[u].fifo # issued[t].fifo
    /\ tickets[u].acceptedAt # Nil

\* C39 -- an unlock answered 403 or 409 leaves the mutex as it was, and
\* Unlock is never invoked on a mutex that is not locked, however unlock
\* requests carrying the nonce of the lock run side by side.
UnlockReleasesOnce ==
  [][/\ (resp'.kind = "unlock" /\ resp'.code \in {403, 409}) => mutex' = mutex
     /\ ~fatal']_vars

====
